---------------------------- MODULE Spec2Model ----------------------------
(***************************************************************************)
(* A model of pid_control: the single-parameter twiddle() of               *)
(* pid_control/pid_control.py, the vector twiddle() of                     *)
(* tests/test_pid_control.py (test_parameter_optrimization) and the Robot  *)
(* motion model.                                                           *)
(*                                                                         *)
(* Numbers of the two optimizers are exact rationals <<n, d>> in lowest    *)
(* terms (d > 0).  In the single-parameter twiddle they are counted in     *)
(* tenths, so that the initial step delta = 0.1 is the rational 1.         *)
(*                                                                         *)
(* Numbers of the Robot are binary floating-point numbers, scaled down     *)
(* from the 53 significant bits of a Python float to 3: an integer count   *)
(* of 1/Unit whose magnitude is m * 2^k with m < 8.  Every arithmetic      *)
(* result is rounded to the nearest such number, ties to the even m, as    *)
(* IEEE 754 does.  Infinities and NaN are not modelled.                    *)
(***************************************************************************)
EXTENDS Integers, Sequences, FiniteSets, TLC

VARIABLES
    \* ---- single-parameter twiddle (pid_control.py:85-161)
    tpc,        \* position in twiddle: "start", "loop", "down", "done"
    objFunction,\* the objective handed to twiddle: [kind, c]
    init,       \* parameter init
    tolerance,  \* parameter tolerance
    domain,     \* parameter domain: [lo, hi, loInf, hiInf]
    x,          \* local x
    delta,      \* local delta
    bestScore,  \* local bestScore
    pastCalls,  \* local pastCalls: function from evaluated x to its score
    calls,      \* history: the inputs objFunction was invoked with, in order
    hits        \* history: the number of probes answered from pastCalls

tvars == <<tpc, objFunction, init, tolerance, domain, x, delta, bestScore,
           pastCalls, calls, hits>>

VARIABLES
    \* ---- vector twiddle (test_pid_control.py:168-198)
    vpc,        \* position: "start", "while", "axis", "other", "return",
                \* "done" (returned p, best_err), "none" (fell off the end)
    tol,        \* parameter tol
    p,          \* local p
    dp,         \* local dp
    best_err,   \* local best_err
    i,          \* the for loop's index, 1 .. len(p)
    errOf,      \* the error run() yields at each parameter vector tried so far
    evals,      \* history: the evaluations [p, error] of run(), in order
    pBefore     \* history: p when the current axis step began

vvars == <<vpc, tol, p, dp, best_err, i, errOf, evals, pBefore>>

VARIABLES
    \* ---- Robot (pid_control.py:9-82)
    robot,      \* the Robot object: x, y, orientation, length, steering_noise,
                \* distance_noise, steering_drift
    lastOp,     \* history: the last call and its arguments
    moves       \* history: the number of move calls so far

rvars == <<robot, lastOp, moves>>

vars == <<tvars, vvars, rvars>>

-----------------------------------------------------------------------------
(* Exact rational arithmetic.  The operations are functions, so that their *)
(* arguments are evaluated once, before they are applied.                  *)

GCD[a \in Int, b \in Int] == IF b = 0 THEN a ELSE GCD[b, a % b]

Abs(n) == IF n < 0 THEN -n ELSE n

\* The rationals, as pairs <<numerator, denominator>>.
Rat == Int \X Int

\* The rational n/d (d # 0) in lowest terms with a positive denominator.
R[n \in Int, d \in Int] ==
    LET g == GCD[Abs(n), Abs(d)]
        s == IF d < 0 THEN -1 ELSE 1
    IN  <<(s * n) \div g, (s * d) \div g>>

LCM[a \in Int, b \in Int] == (a \div GCD[a, b]) * b

RAdd[a \in Rat, b \in Rat] ==
    LET L == LCM[a[2], b[2]]
    IN  R[a[1] * (L \div a[2]) + b[1] * (L \div b[2]), L]

RNeg[a \in Rat] == <<-a[1], a[2]>>

RSub[a \in Rat, b \in Rat] == RAdd[a, RNeg[b]]

RMul[a \in Rat, b \in Rat] ==
    LET g1 == GCD[Abs(a[1]), b[2]]
        g2 == GCD[Abs(b[1]), a[2]]
    IN  R[(a[1] \div g1) * (b[1] \div g2), (a[2] \div g2) * (b[2] \div g1)]

RAbs[a \in Rat] == <<Abs(a[1]), a[2]>>

\* a < b, comparing the integer parts first and then the fractional parts
\* over the common denominator.
RLess[a \in Rat, b \in Rat] ==
    LET fa == a[1] \div a[2]
        fb == b[1] \div b[2]
        L  == LCM[a[2], b[2]]
    IN  IF fa # fb THEN fa < fb
        ELSE (a[1] % a[2]) * (L \div a[2]) < (b[1] % b[2]) * (L \div b[2])

RLeq[a \in Rat, b \in Rat] == ~RLess[b, a]

Zero == <<0, 1>>
One == <<1, 1>>
Two == <<2, 1>>
Half == <<1, 2>>


-----------------------------------------------------------------------------
(* The single-parameter twiddle, pid_control.py:85-161.                    *)

\* Bounds of the inputs the model enumerates.
MaxInitHalves == 6
MaxPeakHalves == 5
DomainHi == 2
\* The search is followed while |x| <= XCap tenths.
XCap == 100

\* init values: k/2 tenths, from below the bounded domain to above it.
Inits == {R[k, 2] : k \in -1 .. MaxInitHalves}

\* tolerance values (tenths).
Tolerances == {<<1, 4>>, <<1, 10>>}

\* The default domain (-inf, inf) and a bounded one, [0, DomainHi] tenths.
Unbounded == [lo |-> Zero, hi |-> Zero, loInf |-> TRUE, hiInf |-> TRUE]
Domains == {Unbounded,
            [lo |-> Zero, hi |-> <<DomainHi, 1>>, loInf |-> FALSE, hiInf |-> FALSE]}

\* Deterministic objectives: f(v) = -v, f(v) = v, f(v) = 0, f(v) = -|v - c|
\* and f(v) = -(v - c)^2.
Objectives ==
    {[kind |-> k, c |-> Zero] : k \in {"neg", "id", "const"}}
    \cup {[kind |-> "peak", c |-> R[k, 2]] : k \in -1 .. MaxPeakHalves}

ObjValue(f, v) ==
    CASE f.kind = "neg"   -> RNeg[v]
      [] f.kind = "id"    -> v
      [] f.kind = "const" -> Zero
      [] f.kind = "peak"  -> RNeg[RAbs[RSub[v, f.c]]]
      [] f.kind = "quad"  -> RNeg[RMul[RSub[v, f.c], RSub[v, f.c]]]

InDomain(v) ==
    /\ domain.loInf \/ RLeq[domain.lo, v]
    /\ domain.hiInf \/ RLeq[v, domain.hi]

\* line 119: while delta > tolerance
LoopCond == RLess[tolerance, delta]

\* lines 122-123: if x + delta > domain[1]: delta = abs(domain[1] - x) / 2
ClampUp(xx, d) ==
    IF ~domain.hiInf /\ RLess[domain.hi, RAdd[xx, d]]
    THEN RMul[RAbs[RSub[domain.hi, xx]], Half]
    ELSE d

\* lines 138-139: if x - delta < domain[0]: delta = abs(domain[0] - x) / 2
ClampDown(xx, d) ==
    IF ~domain.loInf /\ RLess[RSub[xx, d], domain.lo]
    THEN RMul[RAbs[RSub[domain.lo, xx]], Half]
    ELSE d

\* Mutant of NotInPastCalls: the memo is never consulted.
NotInPastCalls_NoMemo(xx) == TRUE

\* lines 126, 142: if x not in pastCalls
NotInPastCalls(xx) == xx \notin DOMAIN pastCalls

\* lines 126-128, 142-144: pastCalls after the probe at xx
Memo(xx) ==
    IF NotInPastCalls(xx)
    THEN [k \in DOMAIN pastCalls \cup {xx} |->
            IF k = xx THEN ObjValue(objFunction, xx) ELSE pastCalls[k]]
    ELSE pastCalls

\* the invocations of objFunction after the probe at xx
Invoked(xx) == IF NotInPastCalls(xx) THEN Append(calls, xx) ELSE calls

\* the probes answered from pastCalls after the probe at xx
Answered(xx) == IF NotInPastCalls(xx) THEN hits ELSE hits + 1

\* lines 134, 150: delta *= 2
Grow(d) == RMul[d, Two]

\* line 152: x += delta
StepBack(xx, d) == RAdd[xx, d]

\* Mutant of Shrink: the step collapses to zero after two failed probes.
Shrink_Collapsed(d) == Zero

\* line 153: delta *= 0.5
Shrink(d) == RMul[d, Half]

\* lines 132, 148: if score > bestScore
Improves(s) == RLess[bestScore, s]

TInitAny ==
    /\ tpc = "start"
    /\ init \in Inits
    /\ tolerance \in Tolerances
    /\ domain \in Domains
    /\ objFunction \in Objectives
    /\ InDomain(init)
    /\ x = Zero
    /\ delta = Zero
    /\ bestScore = Zero
    /\ pastCalls = <<>>
    /\ calls = <<>>
    /\ hits = 0

\* lines 112-117
TStart ==
    /\ tpc = "start"
    /\ x' = init
    /\ delta' = One
    /\ bestScore' = ObjValue(objFunction, init)
    /\ pastCalls' = [k \in {init} |-> ObjValue(objFunction, init)]
    /\ calls' = <<init>>
    /\ hits' = 0
    /\ tpc' = "loop"
    /\ UNCHANGED <<objFunction, init, tolerance, domain>>
    /\ UNCHANGED <<vvars, rvars>>

\* lines 119-134: the loop test and the probe at x + delta
ProbeUp ==
    /\ tpc = "loop"
    /\ LoopCond
    /\ RLeq[RAbs[x], <<XCap, 1>>]
    /\ LET d1 == ClampUp(x, delta)
           x1 == RAdd[x, d1]
           m  == Memo(x1)
       IN  /\ x' = x1
           /\ pastCalls' = m
           /\ calls' = Invoked(x1)
           /\ hits' = Answered(x1)
           /\ IF Improves(m[x1])
              THEN /\ bestScore' = m[x1]
                   /\ delta' = Grow(d1)
                   /\ tpc' = "loop"
              ELSE /\ bestScore' = bestScore
                   /\ delta' = d1
                   /\ tpc' = "down"
    /\ UNCHANGED <<objFunction, init, tolerance, domain>>
    /\ UNCHANGED <<vvars, rvars>>

\* lines 136-153: the probe at x - 2*delta, and the step back
ProbeDown ==
    /\ tpc = "down"
    /\ LET d2 == ClampDown(x, delta)
           x2 == RSub[x, RMul[Two, d2]]
           m  == Memo(x2)
       IN  /\ pastCalls' = m
           /\ calls' = Invoked(x2)
           /\ hits' = Answered(x2)
           /\ IF Improves(m[x2])
              THEN /\ bestScore' = m[x2]
                   /\ x' = x2
                   /\ delta' = Grow(d2)
              ELSE /\ bestScore' = bestScore
                   /\ x' = StepBack(x2, d2)
                   /\ delta' = Shrink(d2)
    /\ tpc' = "loop"
    /\ UNCHANGED <<objFunction, init, tolerance, domain>>
    /\ UNCHANGED <<vvars, rvars>>

\* lines 119, 160-161: the loop ends and twiddle returns parameter x, score bestScore
TReturn ==
    /\ tpc = "loop"
    /\ ~LoopCond
    /\ tpc' = "done"
    /\ UNCHANGED <<objFunction, init, tolerance, domain, x, delta, bestScore,
                   pastCalls, calls, hits>>
    /\ UNCHANGED <<vvars, rvars>>

TNext == TStart \/ ProbeUp \/ ProbeDown \/ TReturn

\* twiddle is not running.
TIdle ==
    /\ tpc = "idle"
    /\ init = Zero
    /\ tolerance = Zero
    /\ domain = Unbounded
    /\ objFunction = [kind |-> "const", c |-> Zero]
    /\ x = Zero
    /\ delta = One
    /\ bestScore = Zero
    /\ pastCalls = <<>>
    /\ calls = <<>>
    /\ hits = 0

-----------------------------------------------------------------------------
(* The vector twiddle of test_parameter_optrimization,                     *)
(* test_pid_control.py:168-198.  run(robot, p) on a fresh robot is a       *)
(* deterministic function of p; its value at each new p is any error level *)
(* of 0 .. MaxErr.                                                         *)

MaxErr == 2
Errs == 0 .. MaxErr

\* tol values: the default 0.2, 2.8 and 3.
VTols == {<<1, 5>>, <<14, 5>>, <<3, 1>>}

\* line 170: p = [0, 0, 0]
P0 == <<Zero, Zero, Zero>>

\* line 171: dp = [1, 1, 1]
DP0 == <<One, One, One>>

RECURSIVE RSum(_)
RSum(q) == IF q = <<>> THEN Zero ELSE RAdd[Head(q), RSum(Tail(q))]

\* line 175: while sum(dp) > tol
VLoopCond == RLess[tol, RSum(dp)]

\* line 173, 180, 187: the error run() may yield at parameter vector q
RunErrors(q) == IF q \in DOMAIN errOf THEN {errOf[q]} ELSE Errs

Recorded(q, e) == [k \in DOMAIN errOf \cup {q} |-> IF k = q THEN e ELSE errOf[k]]

\* Mutant of VImproves: the comparison is reversed.
VImproves_Reversed(e) == e > best_err

\* lines 181, 189: if error < best_err
VImproves(e) == e < best_err

\* line 178: p[i] += dp[i]
PlusProbe(v, d) == RAdd[v, d]

\* Mutant of OtherProbe: only one step is taken back.
OtherProbe_OneStep(v, d) == RSub[v, d]

\* line 185: p[i] -= 2.*p[i]
OtherProbe(v, d) == RSub[v, RMul[Two, v]]

\* line 193: p[i] += dp[i]
Revert(v, d) == RAdd[v, d]

\* lines 183, 191: dp[i] *= 1.1
VGrow(d) == RMul[d, <<11, 10>>]

\* line 196: dp[i] *= 0.9
VShrink(d) == RMul[d, <<9, 10>>]

VInitAny ==
    /\ vpc = "start"
    /\ tol \in VTols
    /\ p = P0
    /\ dp = DP0
    /\ best_err = 0
    /\ i = 1
    /\ errOf = <<>>
    /\ evals = <<>>
    /\ pBefore = P0

VIdle ==
    /\ vpc = "idle"
    /\ tol = Zero
    /\ p = P0
    /\ dp = DP0
    /\ best_err = 0
    /\ i = 1
    /\ errOf = <<>>
    /\ evals = <<>>
    /\ pBefore = P0

\* lines 170-173
VStart ==
    /\ vpc = "start"
    /\ \E e \in RunErrors(P0) :
          /\ best_err' = e
          /\ errOf' = Recorded(P0, e)
          /\ evals' = <<[p |-> P0, error |-> e]>>
    /\ p' = P0
    /\ dp' = DP0
    /\ vpc' = "while"
    /\ UNCHANGED <<tol, i, pBefore>>
    /\ UNCHANGED <<tvars, rvars>>

\* lines 175, 177: the loop is entered and the sweep begins at the first axis
VEnter ==
    /\ vpc = "while"
    /\ VLoopCond
    /\ i' = 1
    /\ vpc' = "axis"
    /\ UNCHANGED <<tol, p, dp, best_err, errOf, evals, pBefore>>
    /\ UNCHANGED <<tvars, rvars>>

\* line 175: the loop is not entered; the function ends without a return
VFallOff ==
    /\ vpc = "while"
    /\ ~VLoopCond
    /\ vpc' = "none"
    /\ UNCHANGED <<tol, p, dp, best_err, i, errOf, evals, pBefore>>
    /\ UNCHANGED <<tvars, rvars>>

\* line 177: the next axis, or the end of the for loop
AfterAxis == IF i < Len(p) THEN "axis" ELSE "return"

\* lines 178-183: the probe at p[i] + dp[i]
VProbePlus ==
    /\ vpc = "axis"
    /\ LET q == [p EXCEPT ![i] = PlusProbe(p[i], dp[i])]
       IN  \E e \in RunErrors(q) :
              /\ p' = q
              /\ errOf' = Recorded(q, e)
              /\ evals' = Append(evals, [p |-> q, error |-> e])
              /\ IF VImproves(e)
                 THEN /\ best_err' = e
                      /\ dp' = [dp EXCEPT ![i] = VGrow(dp[i])]
                      /\ vpc' = AfterAxis
                      /\ i' = IF i < Len(p) THEN i + 1 ELSE i
                 ELSE /\ vpc' = "other"
                      /\ UNCHANGED <<best_err, dp, i>>
    /\ pBefore' = p
    /\ UNCHANGED tol
    /\ UNCHANGED <<tvars, rvars>>

\* lines 184-196: the probe in the other direction, and the revert
VProbeOther ==
    /\ vpc = "other"
    /\ LET q == [p EXCEPT ![i] = OtherProbe(p[i], dp[i])]
       IN  \E e \in RunErrors(q) :
              /\ errOf' = Recorded(q, e)
              /\ evals' = Append(evals, [p |-> q, error |-> e])
              /\ IF VImproves(e)
                 THEN /\ best_err' = e
                      /\ p' = q
                      /\ dp' = [dp EXCEPT ![i] = VGrow(dp[i])]
                 ELSE /\ best_err' = best_err
                      /\ p' = [q EXCEPT ![i] = Revert(q[i], dp[i])]
                      /\ dp' = [dp EXCEPT ![i] = VShrink(dp[i])]
    /\ vpc' = AfterAxis
    /\ i' = IF i < Len(p) THEN i + 1 ELSE i
    /\ UNCHANGED <<tol, pBefore>>
    /\ UNCHANGED <<tvars, rvars>>

\* line 198: return p, best_err
VReturn ==
    /\ vpc = "return"
    /\ vpc' = "done"
    /\ UNCHANGED <<tol, p, dp, best_err, i, errOf, evals, pBefore>>
    /\ UNCHANGED <<tvars, rvars>>

VNext == VStart \/ VEnter \/ VFallOff \/ VProbePlus \/ VProbeOther \/ VReturn

-----------------------------------------------------------------------------
(* Floating-point arithmetic of the Robot.                                 *)

\* The float 1.0.
Unit == 2 ^ 12

\* The spacing of the representable numbers around a/d >= 0.
RECURSIVE Grid(_, _, _)
Grid(a, d, g) == IF a >= 8 * g * d THEN Grid(a, d, 2 * g) ELSE g

\* n/d (d > 0) rounded to the nearest representable number, ties to even.
RN(n, d) ==
    LET a   == Abs(n)
        g   == Grid(a, d, 1)
        m   == a \div (g * d)
        r   == a - m * g * d
        up  == 2 * r > g * d \/ (2 * r = g * d /\ m % 2 = 1)
        mag == (IF up THEN m + 1 ELSE m) * g
    IN  IF n < 0 THEN -mag ELSE mag

FAdd(a, b) == RN(a + b, 1)

FSub(a, b) == RN(a - b, 1)

FMul(a, b) ==
    LET g1 == GCD[Abs(a), Unit]
        u1 == Unit \div g1
        g2 == GCD[Abs(b), u1]
    IN  RN((a \div g1) * (b \div g2), u1 \div g2)

\* a / b, b # 0
FDiv(a, b) ==
    LET g == GCD[Abs(b), Unit]
        n == a * (Unit \div g)
        d == b \div g
    IN  IF d < 0 THEN RN(-n, -d) ELSE RN(n, d)

\* C's fmod(a, m), m > 0: exact, with the sign of a.
CFmod(a, m) == IF a < 0 THEN -((-a) % m) ELSE a % m

\* a % m on floats, m > 0: fmod, then m is added to a negative remainder
\* and the sum is rounded.
FMod(a, m) ==
    LET r == CFmod(a, m)
    IN  IF r < 0 THEN FAdd(r, m) ELSE r

\* np.pi
Pi == RN(12868, 1)

\* np.sin, np.cos on the representable numbers of [0, 2.0 * np.pi] and
\* np.tan on those of [0, 1.0], each value rounded.
SinTable ==
    0 :> 0 @@ 1 :> 1 @@ 2 :> 2 @@ 3 :> 3 @@ 4 :> 4 @@ 5 :> 5 @@ 6 :> 6 @@
    7 :> 7 @@ 8 :> 8 @@ 10 :> 10 @@ 12 :> 12 @@ 14 :> 14 @@ 16 :> 16 @@
    20 :> 20 @@ 24 :> 24 @@ 28 :> 28 @@ 32 :> 32 @@ 40 :> 40 @@ 48 :> 48 @@
    56 :> 56 @@ 64 :> 64 @@ 80 :> 80 @@ 96 :> 96 @@ 112 :> 112 @@
    128 :> 128 @@ 160 :> 160 @@ 192 :> 192 @@ 224 :> 224 @@ 256 :> 256 @@
    320 :> 320 @@ 384 :> 384 @@ 448 :> 448 @@ 512 :> 512 @@ 640 :> 640 @@
    768 :> 768 @@ 896 :> 896 @@ 1024 :> 1024 @@ 1280 :> 1280 @@
    1536 :> 1536 @@ 1792 :> 1792 @@ 2048 :> 2048 @@ 2560 :> 2560 @@
    3072 :> 2560 @@ 3584 :> 3072 @@ 4096 :> 3584 @@ 5120 :> 4096 @@
    6144 :> 4096 @@ 7168 :> 4096 @@ 8192 :> 3584 @@ 10240 :> 2560 @@
    12288 :> 640 @@ 14336 :> -1536 @@ 16384 :> -3072 @@ 20480 :> -4096 @@
    24576 :> -1024

CosTable ==
    0 :> 4096 @@ 1 :> 4096 @@ 2 :> 4096 @@ 3 :> 4096 @@ 4 :> 4096 @@
    5 :> 4096 @@ 6 :> 4096 @@ 7 :> 4096 @@ 8 :> 4096 @@ 10 :> 4096 @@
    12 :> 4096 @@ 14 :> 4096 @@ 16 :> 4096 @@ 20 :> 4096 @@ 24 :> 4096 @@
    28 :> 4096 @@ 32 :> 4096 @@ 40 :> 4096 @@ 48 :> 4096 @@ 56 :> 4096 @@
    64 :> 4096 @@ 80 :> 4096 @@ 96 :> 4096 @@ 112 :> 4096 @@ 128 :> 4096 @@
    160 :> 4096 @@ 192 :> 4096 @@ 224 :> 4096 @@ 256 :> 4096 @@
    320 :> 4096 @@ 384 :> 4096 @@ 448 :> 4096 @@ 512 :> 4096 @@
    640 :> 4096 @@ 768 :> 4096 @@ 896 :> 4096 @@ 1024 :> 4096 @@
    1280 :> 4096 @@ 1536 :> 3584 @@ 1792 :> 3584 @@ 2048 :> 3584 @@
    2560 :> 3072 @@ 3072 :> 3072 @@ 3584 :> 2560 @@ 4096 :> 2048 @@
    5120 :> 1280 @@ 6144 :> 320 @@ 7168 :> -768 @@ 8192 :> -1792 @@
    10240 :> -3072 @@ 12288 :> -4096 @@ 14336 :> -3584 @@ 16384 :> -2560 @@
    20480 :> 1280 @@ 24576 :> 4096

TanTable ==
    0 :> 0 @@ 1 :> 1 @@ 2 :> 2 @@ 3 :> 3 @@ 4 :> 4 @@ 5 :> 5 @@ 6 :> 6 @@
    7 :> 7 @@ 8 :> 8 @@ 10 :> 10 @@ 12 :> 12 @@ 14 :> 14 @@ 16 :> 16 @@
    20 :> 20 @@ 24 :> 24 @@ 28 :> 28 @@ 32 :> 32 @@ 40 :> 40 @@ 48 :> 48 @@
    56 :> 56 @@ 64 :> 64 @@ 80 :> 80 @@ 96 :> 96 @@ 112 :> 112 @@
    128 :> 128 @@ 160 :> 160 @@ 192 :> 192 @@ 224 :> 224 @@ 256 :> 256 @@
    320 :> 320 @@ 384 :> 384 @@ 448 :> 448 @@ 512 :> 512 @@ 640 :> 640 @@
    768 :> 768 @@ 896 :> 896 @@ 1024 :> 1024 @@ 1280 :> 1280 @@
    1536 :> 1536 @@ 1792 :> 1792 @@ 2048 :> 2048 @@ 2560 :> 3072 @@
    3072 :> 3584 @@ 3584 :> 5120 @@ 4096 :> 6144

Sin(a) == SinTable[a]

Cos(a) == CosTable[a]

Tan(a) == IF a < 0 THEN -TanTable[-a] ELSE TanTable[a]

-----------------------------------------------------------------------------
(* The Robot, pid_control.py:9-82.                                         *)

\* The number of move calls followed.
MaxMoves == 2

\* line 10: length=20.0
DefaultLength == 20 * Unit

\* line 45: tolerance=0.001
MoveTolerance == RN(Unit, 1000)

\* line 45: max_steering_angle=np.pi / 4.0
MaxSteeringAngle == FDiv(Pi, 4 * Unit)

\* lines 28, 71, 77: 2.0 * np.pi
TwoPi == FMul(2 * Unit, Pi)

\* Arguments of set: y is 0.0 or 1.0; orientation is 0.0, -1/Unit, 1.5 or 7.0.
SetXs == {0}
SetYs == {0, Unit}
SetOrientations == {0, -1, 3 * (Unit \div 2), 7 * Unit}

\* Arguments of set_noise: <<steering_noise, distance_noise>>.
Noises == {<<0, 0>>, <<1, Unit \div 4>>}

\* Arguments of set_steering_drift: 0.0 and 10 degrees (test_pid_control.py:82).
Drifts == {0, RN(10 * Pi, 180)}

\* Arguments of move.
Steerings == {0, -1, Unit}
Distances == {0, Unit, -Unit}

\* The standard normal samples followed: -1.0, 0.0, 1.0.
ZSamples == {-Unit, 0, Unit}

\* lines 58-59: random.gauss(mu, sigma) = mu + z * sigma
Gauss(mu, sigma) == {FAdd(mu, FMul(z, sigma)) : z \in ZSamples}

\* lines 28, 71, 77: orientation % (2.0 * np.pi)
Normalize(o) == FMod(o, TwoPi)

\* lines 50-53
ClampSteering(steering) ==
    LET s1 == IF steering > MaxSteeringAngle THEN MaxSteeringAngle ELSE steering
    IN  IF s1 < -MaxSteeringAngle THEN -MaxSteeringAngle ELSE s1

\* lines 54-55
ClampDistance(distance) == IF distance < 0 THEN 0 ELSE distance

\* line 65: turn = np.tan(steering2) * distance2 / self.length
Turn(r, steering2, distance2) == FDiv(FMul(Tan(steering2), distance2), r.length)

\* Mutant of MoveStraight: sin and cos are exchanged.
MoveStraight_Swapped(r, distance2, turn) ==
    [r EXCEPT !.x = FAdd(r.x, FMul(distance2, Sin(r.orientation))),
              !.y = FAdd(r.y, FMul(distance2, Cos(r.orientation))),
              !.orientation = Normalize(FAdd(r.orientation, turn))]

\* lines 69-71: straight line motion
MoveStraight(r, distance2, turn) ==
    [r EXCEPT !.x = FAdd(r.x, FMul(distance2, Cos(r.orientation))),
              !.y = FAdd(r.y, FMul(distance2, Sin(r.orientation))),
              !.orientation = Normalize(FAdd(r.orientation, turn))]

\* lines 74-79: bicycle model
MoveBicycle(r, distance2, turn) ==
    LET radius == FDiv(distance2, turn)
        cx     == FSub(r.x, FMul(Sin(r.orientation), radius))
        cy     == FAdd(r.y, FMul(Cos(r.orientation), radius))
        o      == Normalize(FAdd(r.orientation, turn))
    IN  [r EXCEPT !.orientation = o,
                  !.x = FAdd(cx, FMul(Sin(o), radius)),
                  !.y = FSub(cy, FMul(Cos(o), radius))]

\* lines 10-20: Robot()
RInit ==
    /\ robot = [x |-> 0, y |-> 0, orientation |-> 0, length |-> DefaultLength,
                steering_noise |-> 0, distance_noise |-> 0, steering_drift |-> 0]
    /\ lastOp = [op |-> "new", steering |-> 0, distance |-> 0]
    /\ moves = 0

\* lines 22-28
Set(px, py, po) ==
    /\ robot' = [robot EXCEPT !.x = px, !.y = py, !.orientation = Normalize(po)]
    /\ lastOp' = [op |-> "set", steering |-> 0, distance |-> 0]
    /\ UNCHANGED <<moves, tvars, vvars>>

\* lines 30-37
SetNoise(sn, dn) ==
    /\ robot' = [robot EXCEPT !.steering_noise = sn, !.distance_noise = dn]
    /\ lastOp' = [op |-> "set_noise", steering |-> 0, distance |-> 0]
    /\ UNCHANGED <<moves, tvars, vvars>>

\* lines 39-43
SetSteeringDrift(drift) ==
    /\ robot' = [robot EXCEPT !.steering_drift = drift]
    /\ lastOp' = [op |-> "set_steering_drift", steering |-> 0, distance |-> 0]
    /\ UNCHANGED <<moves, tvars, vvars>>

\* lines 45-79
Move(steering, distance) ==
    /\ moves < MaxMoves
    /\ \E s2 \in Gauss(ClampSteering(steering), robot.steering_noise),
          distance2 \in Gauss(ClampDistance(distance), robot.distance_noise) :
          LET steering2 == FAdd(s2, robot.steering_drift)
              turn      == Turn(robot, steering2, distance2)
          IN  robot' = IF Abs(turn) < MoveTolerance
                       THEN MoveStraight(robot, distance2, turn)
                       ELSE MoveBicycle(robot, distance2, turn)
    /\ lastOp' = [op |-> "move", steering |-> steering, distance |-> distance]
    /\ moves' = moves + 1
    /\ UNCHANGED <<tvars, vvars>>

RNext ==
    \/ \E px \in SetXs, py \in SetYs, po \in SetOrientations : Set(px, py, po)
    \/ \E n \in Noises : SetNoise(n[1], n[2])
    \/ \E d \in Drifts : SetSteeringDrift(d)
    \/ \E s \in Steerings, d \in Distances : Move(s, d)

-----------------------------------------------------------------------------
(* Specifications: one per component.                                      *)

\* The single-parameter twiddle on every enumerated input.
Init == TInitAny /\ VIdle /\ RInit
Next == TNext
Spec == Init /\ [][Next]_vars

\* The single-parameter twiddle on f(v) = -(v - 3)^2 with the default
\* tolerance 1e-5 and the default domain, from init = 0, from the default
\* init = 0.5 and from init = 1.  The program runs on: its steps are weakly
\* fair.
QuadAtThree == [kind |-> "quad", c |-> <<30, 1>>]
InitQ ==
    /\ tpc = "start"
    /\ init \in {Zero, <<5, 1>>, <<10, 1>>}
    /\ tolerance = <<1, 10000>>
    /\ domain = Unbounded
    /\ objFunction = QuadAtThree
    /\ x = Zero
    /\ delta = Zero
    /\ bestScore = Zero
    /\ pastCalls = <<>>
    /\ calls = <<>>
    /\ hits = 0
    /\ VIdle
    /\ RInit
SpecQ == InitQ /\ [][TNext]_vars /\ WF_vars(TNext)

\* The vector twiddle.
InitV == VInitAny /\ TIdle /\ RInit
SpecV == InitV /\ [][VNext]_vars

\* The Robot under any sequence of calls.
InitR == RInit /\ TIdle /\ VIdle
SpecR == InitR /\ [][RNext]_vars

-----------------------------------------------------------------------------
(* Claims about the single-parameter twiddle.                              *)

\* C1: with init inside the domain, every value passed to objFunction and
\* the returned parameter lie inside the domain.
C1_ProbesStayInDomain ==
    /\ \A k \in 1 .. Len(calls) : InDomain(calls[k])
    /\ tpc = "done" => InDomain(x)

\* C2: when twiddle returns, the returned score is the objective's value at
\* the returned parameter.
C2_ScoreIsObjectiveAtParameter ==
    tpc = "done" => bestScore = ObjValue(objFunction, x)

\* C3: objFunction is never invoked twice with the same input; a probe at an
\* input already evaluated is answered from pastCalls.
C3_NoInputEvaluatedTwice ==
    \A j, k \in 1 .. Len(calls) : j # k => calls[j] # calls[k]

\* C3 witness: a finished search in which a probe was answered from pastCalls.
C3_Witness == tpc = "done" /\ hits > 0 /\ Len(calls) > 2

\* twiddle has returned a parameter within 1e-3 of 3.0.
ReturnedNearThree ==
    /\ tpc = "done"
    /\ RLeq[RAbs[RSub[x, <<30, 1>>]], <<1, 100>>]

\* The search was started at init = 0.
FromZero == init = Zero

\* C7: on f(v) = -(v - 3)^2 from init = 0 with tolerance 1e-5 and the
\* unbounded domain, twiddle terminates and returns a parameter within 1e-3
\* of 3.0.
C7_ConvergesToThree == FromZero => <>ReturnedNearThree

\* C7 witness: the search from init = 0 has returned 3.0 after probing on
\* both sides of it.
C7_Witness ==
    /\ tpc = "done"
    /\ init = Zero
    /\ objFunction = QuadAtThree
    /\ x = <<30, 1>>
    /\ \E k \in 1 .. Len(calls) : RLess[<<30, 1>>, calls[k]]

\* C9: step sizes never reach zero: delta > 0 in every state of the
\* single-parameter twiddle loop, and every dp[k] > 0 in the vector twiddle.
C9_StepSizesPositive ==
    /\ tpc \in {"loop", "down", "done"} => RLess[Zero, delta]
    /\ \A k \in 1 .. Len(dp) : RLess[Zero, dp[k]]

-----------------------------------------------------------------------------
(* Claims about the vector twiddle.                                        *)

\* C4: whenever the vector twiddle returns (p, best_err), sum(dp) <= tol.
C4_ReturnsOnlyBelowTol == vpc = "done" => RLeq[RSum(dp), tol]

\* C8: best_err never regresses: no step raises it, and it is at most every
\* error evaluated so far.
C8_BestErrNeverRegresses ==
    [][/\ vpc # "start" => best_err' <= best_err
       /\ \A k \in 1 .. Len(evals') : best_err' <= evals'[k].error]_vars

\* C8 witness: a returned search that improved on the first error and also
\* evaluated an error above the best one.
C8_Witness ==
    /\ vpc = "done"
    /\ best_err < evals[1].error
    /\ \E k \in 1 .. Len(evals) : evals[k].error > best_err

\* C10: the other-direction probe of axis i is run with p[i] equal to its
\* value before the axis step minus dp[i]; when it does not improve
\* best_err either, p[i] is back at its value before the step, dp[i] is
\* multiplied by 0.9 and the other entries of p and dp are unchanged.
C10_OtherProbeAndRevert ==
    [][vpc = "other" /\ vpc' # "other" =>
         LET last == evals'[Len(evals')]
         IN  /\ last.p[i] = RSub[pBefore[i], dp[i]]
             /\ \A k \in 1 .. Len(p) : k # i => last.p[k] = pBefore[k]
             /\ ~(last.error < best_err) =>
                   /\ p'[i] = pBefore[i]
                   /\ dp'[i] = RMul[dp[i], <<9, 10>>]
                   /\ \A k \in 1 .. Len(p) :
                         k # i => p'[k] = pBefore[k] /\ dp'[k] = dp[k]]_vars

\* C10 witness: a returned search whose second axis failed in both directions
\* after its first axis had moved.
C10_Witness ==
    /\ vpc = "done"
    /\ p[1] # Zero
    /\ p[2] = Zero
    /\ dp[2] = <<9, 10>>

-----------------------------------------------------------------------------
(* Claims about the Robot.                                                 *)

\* C5: after every set and every move, 0 <= orientation < 2*pi.
C5_OrientationNormalized ==
    0 <= robot.orientation /\ robot.orientation < TwoPi

ZeroNoiseAndDrift ==
    /\ robot.steering_noise = 0
    /\ robot.distance_noise = 0
    /\ robot.steering_drift = 0

\* C6: with zero noise and drift, from any pose, every move(0, distance),
\* distance >= 0, leaves y unchanged and increases x by distance.
C6_StraightLineAlongX ==
    [][(/\ lastOp'.op = "move"
        /\ lastOp'.steering = 0
        /\ lastOp'.distance >= 0
        /\ ZeroNoiseAndDrift)
       => /\ robot'.x = FAdd(robot.x, lastOp'.distance)
          /\ robot'.y = robot.y]_vars

\* C6 amended: with zero noise and drift, every move(0, distance),
\* distance >= 0, of a vehicle whose orientation is 0 leaves y and orientation
\* unchanged and increases x by distance.
C6_StraightLineAtHeadingZero ==
    [][(/\ lastOp'.op = "move"
        /\ lastOp'.steering = 0
        /\ lastOp'.distance >= 0
        /\ ZeroNoiseAndDrift
        /\ robot.orientation = 0)
       => /\ robot'.x = FAdd(robot.x, lastOp'.distance)
          /\ robot'.y = robot.y
          /\ robot'.orientation = robot.orientation]_vars

\* C6 witness: two steps move(0, 1.0) from set(0, 1, 0).
C6_Witness ==
    /\ lastOp = [op |-> "move", steering |-> 0, distance |-> Unit]
    /\ ZeroNoiseAndDrift
    /\ robot.orientation = 0
    /\ robot.x = 2 * Unit
    /\ robot.y = Unit
    /\ moves = 2

=============================================================================
